---------------------------- MODULE Spec2Model ----------------------------
(***************************************************************************)
(* Model of src/daqa/generate.py: the article classifier and cleaner       *)
(* (process_article and its helpers), the cached, retrying generator       *)
(* (generate_questions) and the batch loop (process_articles).             *)
(*                                                                         *)
(* Text is a sequence of lexemes.  A lexeme stands for a fixed run of      *)
(* characters ("{" is one character, "#REDIRECT" nine, "P" a block of      *)
(* prose); the regular expressions of the source are evaluated on these    *)
(* sequences position by position, leftmost match first, as re.sub does.   *)
(***************************************************************************)
EXTENDS Naturals, Integers, Sequences, FiniteSets, TLC

(***************************************************************************)
(* Bounds of the model.                                                    *)
(***************************************************************************)
\* number of fragments a raw wikitext is assembled from (SpecText)
MaxFrags == 3
\* number of article ids handed to process_articles (Spec)
MaxIds == 2
\* most lexemes a failing write leaves in the cache file (Spec)
MaxWritten == 1
MaxTotal == 4

(***************************************************************************)
(* Lexemes.                                                                *)
(***************************************************************************)
\* "P": 60 words of 6 characters, single spaces between: 419 characters.
\* "Q": 50 words of 5 characters: 299 characters.
\* "L": one word of 400 characters.   "w": one word of one character.
ProseWords(t) ==
    CASE t = "P" -> 60
      [] t = "Q" -> 50
      [] t = "Include only" -> 2
      [] t = "sp" -> 0
      [] OTHER -> 1

TokLen(t) ==
    CASE t = "P" -> 419
      [] t = "Q" -> 299
      [] t = "L" -> 400
      [] t \in {"#REDIRECT", "#redirect", "#Redirect", "Kategori:"} -> 9
      [] t = "Include only" -> 12
      [] t = "Infoboks" -> 8
      [] t \in {"navbox", "</ref>"} -> 6
      [] t = "tabel" -> 5
      [] t \in {"http", "<!--", "<ref"} -> 4
      [] t = "-->" -> 3
      [] t = "</" -> 2
      [] OTHER -> 1

\* str.isspace of the lexeme
IsSpace(t) == t = "sp"

\* str.lower of one lexeme
Lower(t) ==
    CASE t \in {"#REDIRECT", "#Redirect"} -> "#redirect"
      [] t = "Infoboks" -> "infoboks"
      [] t = "Include only" -> "include only"
      [] OTHER -> t

\* len(text)
RECURSIVE TextLen(_)
TextLen(s) == IF s = <<>> THEN 0 ELSE TokLen(Head(s)) + TextLen(Tail(s))

\* len(text.split()): the maximal runs of non-whitespace, a prose block
\* holding ProseWords words of which the first and last join their neighbours
RECURSIVE SplitCount(_, _)
SplitCount(s, i) ==
    IF i > Len(s) THEN 0
    ELSE IF IsSpace(s[i]) THEN SplitCount(s, i + 1)
    ELSE (ProseWords(s[i]) - 1)
         + (IF i = 1 \/ IsSpace(s[i - 1]) THEN 1 ELSE 0)
         + SplitCount(s, i + 1)

WordCount(s) == SplitCount(s, 1)

\* str.lstrip, str.rstrip, str.strip
RECURSIVE LStrip(_)
LStrip(s) == IF s # <<>> /\ IsSpace(Head(s)) THEN LStrip(Tail(s)) ELSE s

RECURSIVE RStrip(_)
RStrip(s) ==
    IF s # <<>> /\ IsSpace(s[Len(s)]) THEN RStrip(SubSeq(s, 1, Len(s) - 1)) ELSE s

Strip(s) == RStrip(LStrip(s))

\* the first position >= from of s holding a lexeme of set S; 0 when none
FirstIdx(s, from, S) ==
    LET c == {j \in from..Len(s) : s[j] \in S}
    IN  IF c = {} THEN 0 ELSE CHOOSE j \in c : \A k \in c : j <= k

At(s, i, t) == i <= Len(s) /\ s[i] = t

(***************************************************************************)
(* The regular expressions: MatchX(s, i) is the last position of the match *)
(* of X that starts at position i, 0 when X does not match there.          *)
(***************************************************************************)
\* {{[^}]*}}
MatchTemplate(s, i) ==
    IF At(s, i, "{") /\ At(s, i + 1, "{")
    THEN LET j == FirstIdx(s, i + 2, {"}"})
         IN  IF j > 0 /\ At(s, j + 1, "}") THEN j + 1 ELSE 0
    ELSE 0

\* \[\[Kategori:[^\]]*\]\]
MatchCategory(s, i) ==
    IF At(s, i, "[") /\ At(s, i + 1, "[") /\ At(s, i + 2, "Kategori:")
    THEN LET j == FirstIdx(s, i + 3, {"]"})
         IN  IF j > 0 /\ At(s, j + 1, "]") THEN j + 1 ELSE 0
    ELSE 0

\* \[http[^\]]*\]
MatchExternal(s, i) ==
    IF At(s, i, "[") /\ At(s, i + 1, "http") THEN FirstIdx(s, i + 2, {"]"}) ELSE 0

\* <!--.*?--> with DOTALL
MatchComment(s, i) ==
    IF At(s, i, "<!--") THEN FirstIdx(s, i + 1, {"-->"}) ELSE 0

\* <ref[^>]*>.*?</ref> with DOTALL; ">" also ends the lexemes "-->" and "</ref>"
MatchRef(s, i) ==
    IF At(s, i, "<ref")
    THEN LET k == FirstIdx(s, i + 1, {">", "-->", "</ref>"})
         IN  IF k > 0 THEN FirstIdx(s, k + 1, {"</ref>"}) ELSE 0
    ELSE 0

\* \[\[(?:[^|\]]*\|)?([^\]]+)\]\]
MatchLink(s, i) ==
    IF At(s, i, "[") /\ At(s, i + 1, "[")
    THEN LET j == FirstIdx(s, i + 2, {"]"})
         IN  IF j > i + 2 /\ At(s, j + 1, "]") THEN j + 1 ELSE 0
    ELSE 0

\* group 1 of the link match at i that ends at e: the text after the first
\* "|" when something follows it, the whole inner text otherwise
LinkLabel(s, i, e) ==
    LET p == FirstIdx(SubSeq(s, 1, e - 2), i + 2, {"|"})
    IN  IF p > 0 /\ p < e - 2 THEN SubSeq(s, p + 1, e - 2) ELSE SubSeq(s, i + 2, e - 2)

\* re.sub(X, '', s), one operator per expression of clean_wikitext
RECURSIVE SubTemplate(_, _)
SubTemplate(s, i) ==
    IF i > Len(s) THEN <<>>
    ELSE LET e == MatchTemplate(s, i)
         IN  IF e > 0 THEN SubTemplate(s, e + 1) ELSE <<s[i]>> \o SubTemplate(s, i + 1)

RECURSIVE SubCategory(_, _)
SubCategory(s, i) ==
    IF i > Len(s) THEN <<>>
    ELSE LET e == MatchCategory(s, i)
         IN  IF e > 0 THEN SubCategory(s, e + 1) ELSE <<s[i]>> \o SubCategory(s, i + 1)

RECURSIVE SubExternal(_, _)
SubExternal(s, i) ==
    IF i > Len(s) THEN <<>>
    ELSE LET e == MatchExternal(s, i)
         IN  IF e > 0 THEN SubExternal(s, e + 1) ELSE <<s[i]>> \o SubExternal(s, i + 1)

RECURSIVE SubComment(_, _)
SubComment(s, i) ==
    IF i > Len(s) THEN <<>>
    ELSE LET e == MatchComment(s, i)
         IN  IF e > 0 THEN SubComment(s, e + 1) ELSE <<s[i]>> \o SubComment(s, i + 1)

RECURSIVE SubRef(_, _)
SubRef(s, i) ==
    IF i > Len(s) THEN <<>>
    ELSE LET e == MatchRef(s, i)
         IN  IF e > 0 THEN SubRef(s, e + 1) ELSE <<s[i]>> \o SubRef(s, i + 1)

\* re.sub(link, r'\1', s)
RECURSIVE SubLink(_, _)
SubLink(s, i) ==
    IF i > Len(s) THEN <<>>
    ELSE LET e == MatchLink(s, i)
         IN  IF e > 0 THEN LinkLabel(s, i, e) \o SubLink(s, e + 1)
             ELSE <<s[i]>> \o SubLink(s, i + 1)

clean_wikitext(text) ==
    LET t1 == SubTemplate(text, 1)
        t2 == SubCategory(t1, 1)
        t3 == SubExternal(t2, 1)
        t4 == SubComment(t3, 1)
        t5 == SubRef(t4, 1)
        t6 == SubLink(t5, 1)
    IN  Strip(t6)

\* is_redirect without .lower()
is_redirect_bug(text) ==
    LET t == Strip(text) IN t # <<>> /\ t[1] = "#redirect"

is_redirect(text) ==
    LET t == Strip(text) IN t # <<>> /\ Lower(t[1]) = "#redirect"

(***************************************************************************)
(* is_include_only, is_meaningful_article, process_article.                *)
(***************************************************************************)
min_content_length == 300
min_word_count == 50

\* is_meaningful_article with "or" for "and"
is_meaningful_article_bug(content) ==
    TextLen(content) >= min_content_length \/ WordCount(content) >= min_word_count

is_meaningful_article(content) ==
    LET word_count == WordCount(content)
    IN  TextLen(content) >= min_content_length /\ word_count >= min_word_count

include_only_starts == {"}", "|", "</"}

\* str.startswith(start): "</ref>" begins with the characters "</"
StartsWith(s, start) ==
    s # <<>> /\ (s[1] = start \/ (start = "</" /\ s[1] = "</ref>"))

\* re.sub(r'{{[^}]*}}|\[\[Kategori:[^\]]*\]\]|\s', '', content)
RECURSIVE SubTemplateCategorySpace(_, _)
SubTemplateCategorySpace(s, i) ==
    IF i > Len(s) THEN <<>>
    ELSE LET e == IF MatchTemplate(s, i) > 0 THEN MatchTemplate(s, i)
                  ELSE IF MatchCategory(s, i) > 0 THEN MatchCategory(s, i)
                  ELSE IF IsSpace(s[i]) THEN i ELSE 0
         IN  IF e > 0 THEN SubTemplateCategorySpace(s, e + 1)
             ELSE <<s[i]>> \o SubTemplateCategorySpace(s, i + 1)

\* the three expressions of include_only_templates, lower-cased (IGNORECASE)
include_only_templates ==
    << {"include only", "kun til inklusion"},
       {"navbox", "infoboks"},
       {"tabel", "table"} >>

\* {{\s*(?:name|...) matches at position i
MatchIncludeTemplate(s, i, names) ==
    /\ At(s, i, "{") /\ At(s, i + 1, "{")
    /\ LET c == {j \in (i + 2)..Len(s) : ~IsSpace(s[j])}
       IN  c # {} /\ Lower(s[CHOOSE j \in c : \A k \in c : j <= k]) \in names

\* len(re.findall(template, content, re.IGNORECASE))
FindAllCount(s, names) ==
    Cardinality({i \in 1..Len(s) : MatchIncludeTemplate(s, i, names)})

\* the for loop over include_only_templates from template k on: "True" as
\* soon as a ratio exceeds 0.8, "ZeroDivisionError" when the division by
\* len(content.split()) has a zero divisor, "False" after the last template
\* a ratio taken over the words that follow the first one
RECURSIVE TemplateLoop_bug(_, _)
TemplateLoop_bug(content, k) ==
    IF k > Len(include_only_templates) THEN "False"
    ELSE IF FindAllCount(content, include_only_templates[k]) > 0
         THEN IF WordCount(content) - 1 = 0 THEN "ZeroDivisionError"
              ELSE IF 5 * FindAllCount(content, include_only_templates[k])
                        > 4 * (WordCount(content) - 1)
                   THEN "True"
                   ELSE TemplateLoop_bug(content, k + 1)
         ELSE TemplateLoop_bug(content, k + 1)

RECURSIVE TemplateLoop(_, _)
TemplateLoop(content, k) ==
    IF k > Len(include_only_templates) THEN "False"
    ELSE IF FindAllCount(content, include_only_templates[k]) > 0
         THEN IF WordCount(content) = 0 THEN "ZeroDivisionError"
              ELSE IF 5 * FindAllCount(content, include_only_templates[k])
                        > 4 * WordCount(content)
                   THEN "True"
                   ELSE TemplateLoop(content, k + 1)
         ELSE TemplateLoop(content, k + 1)

is_include_only(content0) ==
    LET content == LStrip(content0)
        cleaned_content == SubTemplateCategorySpace(content, 1)
    IN  IF \E start \in include_only_starts : StartsWith(content, start) THEN "True"
        ELSE IF cleaned_content = <<>> THEN "True"
        ELSE TemplateLoop(content, 1)

\* mwparserfromhell.parse followed by str(): the library returns the text it
\* was given, or raises; which of the two is an input (parse_ok)
NoContent == <<"None">>

\* process_article whose except branch logs the error and goes on to the
\* rules with the raw text
process_article_bug(title, text, parse_ok) ==
    IF is_redirect(text) THEN [status |-> "skip", title |-> title, content |-> NoContent]
    ELSE LET content == IF parse_ok THEN clean_wikitext(text) ELSE text
         IN  IF is_include_only(content) # "False" \/ ~is_meaningful_article(content)
             THEN [status |-> "skip", title |-> title, content |-> NoContent]
             ELSE [status |-> "keep", title |-> title, content |-> content]

process_article(title, text, parse_ok) ==
    IF is_redirect(text) THEN [status |-> "skip", title |-> title, content |-> NoContent]
    ELSE IF ~parse_ok THEN [status |-> "keep", title |-> title, content |-> text]
    ELSE LET content == clean_wikitext(text)
         IN  IF is_include_only(content) = "ZeroDivisionError"
             THEN [status |-> "raise", title |-> title, content |-> NoContent]
             ELSE IF is_include_only(content) = "True"
             THEN [status |-> "skip", title |-> title, content |-> NoContent]
             ELSE IF ~is_meaningful_article(content)
             THEN [status |-> "skip", title |-> title, content |-> NoContent]
             ELSE [status |-> "keep", title |-> title, content |-> content]

(***************************************************************************)
(* JSON as generate_questions uses it.  A JSON text is a sequence of       *)
(* lexemes: "[" and "]", one lexeme per record of the list, "5" a number,  *)
(* anything else unparsable.  A parsed value is [kind, items].             *)
(***************************************************************************)
RecordLexemes == {"QA1", "QA2", "Q1", "SUR"}

\* the dict a record lexeme stands for; "SUR" holds the lone surrogate
\* "\ud800", which JSON can express and UTF-8 cannot encode
DecodeRecord(l) ==
    CASE l = "QA1" -> ("spørgsmål" :> "q1") @@ ("svar" :> "a1")
      [] l = "QA2" -> ("spørgsmål" :> "q2") @@ ("svar" :> "a2")
      [] l = "Q1"  -> ("spørgsmål" :> "q1")
      [] l = "SUR" -> ("spørgsmål" :> "\\ud800") @@ ("svar" :> "a1")

EncodeRecord(r) == CHOOSE l \in RecordLexemes : DecodeRecord(l) = r

JsonList(items) == [kind |-> "list", items |-> items]
JsonInt == [kind |-> "int", items |-> <<>>]
EmptyList == JsonList(<<>>)

\* json.loads: [ok |-> FALSE] stands for JSONDecodeError
json_loads(text) ==
    IF text = <<"5">> THEN [ok |-> TRUE, value |-> JsonInt]
    ELSE IF /\ Len(text) >= 2
            /\ text[1] = "[" /\ text[Len(text)] = "]"
            /\ \A i \in 2..(Len(text) - 1) : text[i] \in RecordLexemes
         THEN [ok |-> TRUE,
               value |-> JsonList([i \in 1..(Len(text) - 2) |-> DecodeRecord(text[i + 1])])]
         ELSE [ok |-> FALSE, value |-> EmptyList]

\* json.dumps of value[:1]
json_dumps_bug(value) ==
    IF value.kind = "int" THEN <<"5">>
    ELSE IF value.items = <<>> THEN <<"[", "]">>
    ELSE <<"[", EncodeRecord(value.items[1]), "]">>

\* json.dumps(value, ensure_ascii=False, indent=2)
json_dumps(value) ==
    IF value.kind = "int" THEN <<"5">>
    ELSE <<"[">> \o [i \in 1..Len(value.items) |-> EncodeRecord(value.items[i])] \o <<"]">>

\* whether f.write(text) on a file opened with encoding='utf-8' can encode it
Utf8Encodable(text) == \A i \in 1..Len(text) : text[i] # "SUR"

(***************************************************************************)
(* The article store, the API and the file system.                         *)
(***************************************************************************)
\* rows of the table articles(id, title, content), ids 1..Len(Articles)
Articles ==
    << [title |-> <<"a">>,      text |-> <<"b", "P">>],
       [title |-> <<"a", "b">>, text |-> <<"P">>],
       [title |-> <<"c">>,      text |-> <<"#REDIRECT", "sp", "[", "[", "w", "]", "]">>],
       [title |-> <<"d">>,      text |-> <<"{", "{", "navbox", "}", "}", "sp", "w">>] >>

\* one id more than the table holds: SELECT returns no row for it
ArticleIds == 1..(Len(Articles) + 1)

RECURSIVE SeqsUpTo(_, _)
SeqsUpTo(S, n) ==
    IF n = 0 THEN {<<>>}
    ELSE LET shorter == SeqsUpTo(S, n - 1)
         IN  shorter \cup {Append(q, x) : q \in shorter, x \in S}

\* message.content of the responses the API may give
Bodies ==
    { <<"[", "]">>,
      <<"[", "QA1", "QA2", "QA1", "QA1", "QA2", "]">>,
      <<"[", "QA1", "QA2", "QA1", "QA1", "QA2", "QA2", "]">>,
      <<"[", "QA1", "Q1", "]">>,
      <<"[", "SUR", "]">>,
      <<"5">>,
      <<"[", "QA1">> }

\* "error": client.chat.completions.create raises; "none": content is None
Responses ==
    {[kind |-> "error", body |-> <<>>], [kind |-> "none", body |-> <<>>]}
    \cup {[kind |-> "text", body |-> b] : b \in Bodies}

NoResponse == [kind |-> "unset", body |-> <<>>]

\* open(cache_file, 'w') and f.write: "open_error" creates nothing,
\* "write_error" leaves the file holding a proper prefix of the text, n
\* lexemes of it
IoOutcomes ==
    {[kind |-> "ok", n |-> 0], [kind |-> "open_error", n |-> 0]}
    \cup {[kind |-> "write_error", n |-> k] : k \in 0..MaxWritten}

\* hashlib.md5((title + content).encode()).hexdigest(): the digest is taken
\* as injective on the concatenated string, the concatenation is computed
article_hash(a) == a.title \o a.content

NoArticle == [title |-> <<>>, content |-> NoContent]

(***************************************************************************)
(* State of one run of process_articles.                                   *)
(***************************************************************************)
VARIABLES
    article_ids,  \* the argument of process_articles
    idx,          \* position of the for loop in article_ids
    pc,           \* "loop", "generate", "attempt", "rows", "done", "raised"
    article,      \* what process_article returned for the current id
    cache,        \* cache_dir: article_hash -> text of the file, where one exists
    dataset,      \* the rows added so far
    attempt,      \* loop variable of the retry loop
    qa_pairs,     \* what generate_questions returned
    exc,          \* the exception that left process_articles, "none" while there is none
    \* history of the current call of generate_questions
    api_log,      \* the attempt numbers logged with each API request
    sleeps,       \* number of time.sleep(2) calls
    cache0,       \* the cache when the call started
    last,         \* the response to the latest API request, and whether it was used
    \* history of the run
    returned,     \* per return of generate_questions: position in article_ids,
                  \* the article, the list returned and how it was obtained
    \* input and result of one call of process_article (SpecText)
    raw,          \* the wikitext
    parsed,       \* whether mwparserfromhell.parse returned
    outcome,      \* "none" before the call, then "skip", "keep" or "raise"
    kept,         \* the content of the article returned
    \* main (SpecMain)
    limit,                 \* args.limit: absent (None) or an integer
    total_articles,        \* SELECT COUNT(*) FROM articles
    shuffled,              \* article_ids after random.shuffle
    selected_article_ids   \* the ids handed to process_articles

vars == <<article_ids, idx, pc, article, cache, dataset, attempt, qa_pairs, exc,
          api_log, sleeps, cache0, last, returned, raw, parsed, outcome, kept,
          limit, total_articles, shuffled, selected_article_ids>>

textVars == <<raw, parsed, outcome, kept>>
runVars == <<article_ids, idx, pc, article, cache, dataset, attempt, qa_pairs, exc,
             api_log, sleeps, cache0, last, returned>>
hist == <<api_log, sleeps, cache0, last>>
mainVars == <<limit, total_articles, shuffled, selected_article_ids>>

\* args.limit when --limit is not given
NoLimit == [given |-> FALSE, value |-> 0]

\* a retry loop that runs once more
max_retries_bug == 3 + 1

max_retries == 3

\* os.path.exists(cache_file)
CacheExists(c, key) == key \in DOMAIN c

\* the file written: (key :> text) over the other files
WriteFile(c, key, text) == (key :> text) @@ c

\* what a write that fails after n lexemes leaves: never the whole text
Prefix(text, n) == SubSeq(text, 1, IF n < Len(text) THEN n ELSE Len(text) - 1)

\* one pass of lines 125-134 on a response: what becomes of the cache file
\* and whether the attempt returns
AttemptResult(c, key, resp, io) ==
    IF resp.kind # "text" THEN [ok |-> FALSE, cache |-> c, value |-> EmptyList]
    ELSE LET r == json_loads(resp.body)
             text == json_dumps(r.value)
         IN  IF ~r.ok THEN [ok |-> FALSE, cache |-> c, value |-> EmptyList]
             ELSE IF io.kind = "open_error"
                  THEN [ok |-> FALSE, cache |-> c, value |-> EmptyList]
             ELSE IF ~Utf8Encodable(text)
                  THEN [ok |-> FALSE, cache |-> WriteFile(c, key, <<>>), value |-> EmptyList]
             ELSE IF io.kind = "write_error"
                  THEN [ok |-> FALSE, cache |-> WriteFile(c, key, Prefix(text, io.n)),
                        value |-> EmptyList]
             ELSE [ok |-> TRUE, cache |-> WriteFile(c, key, text), value |-> r.value]

\* a time.sleep(2) after every failed attempt, the last one too
SleepsAfterFailure_bug(a) == 1

\* if attempt < max_retries - 1: time.sleep(2)
SleepsAfterFailure(a) == IF a < max_retries - 1 THEN 1 ELSE 0

\* qa["spørgsmål"] and qa["svar"] both succeed
HasKeys(qa) == "spørgsmål" \in DOMAIN qa /\ "svar" \in DOMAIN qa

qa_entry(title, a, qa) ==
    [title |-> title, context |-> a.content,
     question |-> qa["spørgsmål"], answer |-> qa["svar"]]

\* a loop that adds a pair only when no equal row follows
RECURSIVE RowsOf_bug(_, _, _)
RowsOf_bug(title, a, items) ==
    IF items = <<>> \/ ~HasKeys(Head(items)) THEN <<>>
    ELSE LET rest == RowsOf_bug(title, a, Tail(items))
             row == qa_entry(title, a, Head(items))
         IN  IF \E i \in 1..Len(rest) : rest[i] = row THEN rest ELSE <<row>> \o rest

\* the rows the loop of lines 170-177 adds before it ends or raises
RECURSIVE RowsOf(_, _, _)
RowsOf(title, a, items) ==
    IF items = <<>> \/ ~HasKeys(Head(items)) THEN <<>>
    ELSE <<qa_entry(title, a, Head(items))>> \o RowsOf(title, a, Tail(items))

\* the loop of lines 170-177 raises: the value is no list, or a record lacks a key
RowsRaise(v) == v.kind # "list" \/ \E i \in 1..Len(v.items) : ~HasKeys(v.items[i])

\* the record kept of one return of generate_questions
Returned(how, value) ==
    [pos |-> idx, article |-> article, qa_pairs |-> value, how |-> how]

Init ==
    /\ article_ids \in SeqsUpTo(ArticleIds, MaxIds)
    /\ idx = 1
    /\ pc = "loop"
    /\ article = NoArticle
    /\ cache = <<>>
    /\ dataset = <<>>
    /\ attempt = 0
    /\ qa_pairs = EmptyList
    /\ exc = "none"
    /\ api_log = <<>>
    /\ sleeps = 0
    /\ cache0 = <<>>
    /\ last = [resp |-> NoResponse, ok |-> FALSE]
    /\ returned = <<>>
    /\ raw = <<>> /\ parsed = TRUE /\ outcome = "none" /\ kept = NoContent
    /\ limit = NoLimit /\ total_articles = 0
    /\ shuffled = <<>> /\ selected_article_ids = <<>>

\* lines 162-168: fetch the row, classify and clean it
NextArticle(parse_ok) ==
    /\ pc = "loop" /\ idx <= Len(article_ids)
    /\ LET id == article_ids[idx]
       IN  IF id \notin 1..Len(Articles)
           THEN /\ idx' = idx + 1
                /\ UNCHANGED <<pc, article, exc>>
           ELSE LET a == process_article(Articles[id].title, Articles[id].text, parse_ok)
                IN  CASE a.status = "skip" ->
                           /\ idx' = idx + 1
                           /\ article' = NoArticle
                           /\ pc' = "loop"
                           /\ UNCHANGED exc
                      [] a.status = "keep" ->
                           /\ article' = [title |-> a.title, content |-> a.content]
                           /\ pc' = "generate"
                           /\ UNCHANGED <<idx, exc>>
                      [] a.status = "raise" ->
                           /\ pc' = "raised"
                           /\ exc' = "ZeroDivisionError"
                           /\ UNCHANGED <<idx, article>>
    /\ UNCHANGED <<article_ids, cache, dataset, attempt, qa_pairs, hist, returned, textVars, mainVars>>

\* lines 91-113: the cache lookup of generate_questions
CacheLookup ==
    /\ pc = "generate"
    /\ LET key == article_hash(article)
       IN  /\ cache0' = cache
           /\ api_log' = <<>> /\ sleeps' = 0
           /\ last' = [resp |-> NoResponse, ok |-> FALSE]
           /\ IF CacheExists(cache, key)
              THEN LET r == json_loads(cache[key])
                   IN  IF r.ok
                       THEN /\ qa_pairs' = r.value
                            /\ returned' = Append(returned, Returned("hit", r.value))
                            /\ pc' = "rows"
                            /\ UNCHANGED <<attempt, exc>>
                       ELSE /\ pc' = "raised"
                            /\ exc' = "JSONDecodeError"
                            /\ UNCHANGED <<qa_pairs, returned, attempt>>
              ELSE /\ attempt' = 0
                   /\ pc' = "attempt"
                   /\ UNCHANGED <<qa_pairs, returned, exc>>
    /\ UNCHANGED <<article_ids, idx, article, cache, dataset, textVars, mainVars>>

\* lines 114-141: one iteration of the retry loop, and the return that follows it
Attempt(resp, io) ==
    /\ pc = "attempt" /\ attempt < max_retries
    /\ LET key == article_hash(article)
           res == AttemptResult(cache, key, resp, io)
       IN  /\ api_log' = Append(api_log, attempt + 1)
           /\ last' = [resp |-> resp, ok |-> res.ok]
           /\ cache' = res.cache
           /\ IF res.ok
              THEN /\ qa_pairs' = res.value
                   /\ returned' = Append(returned, Returned("generated", res.value))
                   /\ pc' = "rows"
                   /\ UNCHANGED <<attempt, sleeps>>
              ELSE /\ sleeps' = sleeps + SleepsAfterFailure(attempt)
                   /\ attempt' = attempt + 1
                   /\ IF attempt + 1 < max_retries
                      THEN /\ pc' = "attempt"
                           /\ UNCHANGED <<qa_pairs, returned>>
                      ELSE /\ qa_pairs' = EmptyList
                           /\ returned' = Append(returned, Returned("exhausted", EmptyList))
                           /\ pc' = "rows"
    /\ UNCHANGED <<article_ids, idx, article, dataset, cache0, exc, textVars, mainVars>>

\* lines 170-178: one row per pair
AddRows ==
    /\ pc = "rows"
    /\ dataset' = dataset \o RowsOf(article.title, article, qa_pairs.items)
    /\ IF RowsRaise(qa_pairs)
       THEN /\ pc' = "raised"
            /\ exc' = (IF qa_pairs.kind # "list" THEN "TypeError" ELSE "KeyError")
            /\ UNCHANGED idx
       ELSE /\ pc' = "loop"
            /\ idx' = idx + 1
            /\ UNCHANGED exc
    /\ UNCHANGED <<article_ids, article, cache, attempt, qa_pairs, hist, returned, textVars, mainVars>>

\* lines 180-181
Return ==
    /\ pc = "loop" /\ idx > Len(article_ids)
    /\ pc' = "done"
    /\ UNCHANGED <<article_ids, idx, article, cache, dataset, attempt, qa_pairs, exc,
                   hist, returned, textVars, mainVars>>

Next ==
    \/ \E parse_ok \in BOOLEAN : NextArticle(parse_ok)
    \/ CacheLookup
    \/ \E resp \in Responses, io \in IoOutcomes : Attempt(resp, io)
    \/ AddRows
    \/ Return

Spec == Init /\ [][Next]_vars

\* the program is sequential and every API call returns or raises: a step
\* that can be taken is taken
SpecFair == Spec /\ WF_vars(Next)

(***************************************************************************)
(* process_article on its own: one call on a wikitext assembled from       *)
(* fragments.                                                              *)
(***************************************************************************)
Fragments ==
    { <<"sp">>, <<"w">>, <<"P">>, <<"Q">>, <<"L">>,
      <<"#REDIRECT">>, <<"#redirect">>,
      <<"{", "{", "navbox", "}", "}">>,
      <<"{", "{", "navbox">>,
      <<"}">>, <<"|">>,
      <<"[", "[", "w", "|", "P", "]", "]">>,
      <<"[", "[", "Kategori:", "w", "]", "]">>,
      <<"[", "http", "w", "]">>,
      <<"<ref", ">", "w", "</ref>">>,
      <<"<!--", "P", "-->">> }

RECURSIVE TextsUpTo(_)
TextsUpTo(n) ==
    IF n = 0 THEN {<<>>}
    ELSE LET shorter == TextsUpTo(n - 1)
         IN  shorter \cup {t \o f : t \in shorter, f \in Fragments}

InitText ==
    /\ raw \in TextsUpTo(MaxFrags)
    /\ parsed = TRUE /\ outcome = "none" /\ kept = NoContent
    /\ article_ids = <<>> /\ idx = 1 /\ pc = "text"
    /\ article = NoArticle /\ cache = <<>> /\ dataset = <<>>
    /\ attempt = 0 /\ qa_pairs = EmptyList /\ exc = "none"
    /\ api_log = <<>> /\ sleeps = 0 /\ cache0 = <<>>
    /\ last = [resp |-> NoResponse, ok |-> FALSE]
    /\ returned = <<>>
    /\ limit = NoLimit /\ total_articles = 0
    /\ shuffled = <<>> /\ selected_article_ids = <<>>

\* lines 23-45
Classify(parse_ok) ==
    /\ pc = "text" /\ outcome = "none"
    /\ LET a == process_article(<<"t">>, raw, parse_ok)
       IN  /\ outcome' = a.status
           /\ kept' = a.content
           /\ parsed' = parse_ok
    /\ UNCHANGED <<raw, runVars, mainVars>>

NextText == \E parse_ok \in BOOLEAN : Classify(parse_ok)

SpecText == InitText /\ [][NextText]_vars

(***************************************************************************)
(* main: the choice of the article ids, lines 191-198.                     *)
(***************************************************************************)
\* the values of --limit: absent, or an integer (argparse type=int)
Limits ==
    {NoLimit} \cup {[given |-> TRUE, value |-> v] : v \in -1..(MaxTotal + 1)}

\* a selection that takes --limit as it is
article_count_bug(l, total) == l.value

\* article_count = args.limit if args.limit else total_articles
\* (None and 0 are both false)
article_count(l, total) == IF l.given /\ l.value # 0 THEN l.value ELSE total

\* s[:n] of Python: a negative n counts from the end
Slice(s, n) ==
    LET stop == IF n >= 0 THEN (IF n < Len(s) THEN n ELSE Len(s))
                ELSE (IF Len(s) + n > 0 THEN Len(s) + n ELSE 0)
    IN  SubSeq(s, 1, stop)

\* the orders random.shuffle can leave list(range(1, n + 1)) in, one per seed
Shuffles(n) ==
    {p \in [1..n -> 1..n] : \A i, j \in 1..n : p[i] = p[j] => i = j}

InitMain ==
    /\ limit \in Limits
    /\ total_articles = 0 /\ shuffled = <<>> /\ selected_article_ids = <<>>
    /\ pc = "main"
    /\ article_ids = <<>> /\ idx = 1
    /\ article = NoArticle /\ cache = <<>> /\ dataset = <<>>
    /\ attempt = 0 /\ qa_pairs = EmptyList /\ exc = "none"
    /\ api_log = <<>> /\ sleeps = 0 /\ cache0 = <<>>
    /\ last = [resp |-> NoResponse, ok |-> FALSE]
    /\ returned = <<>>
    /\ raw = <<>> /\ parsed = TRUE /\ outcome = "none" /\ kept = NoContent

\* lines 191-192
CountArticles(n) ==
    /\ pc = "main"
    /\ total_articles' = n
    /\ pc' = "counted"
    /\ UNCHANGED <<limit, shuffled, selected_article_ids>>
    /\ UNCHANGED <<article_ids, idx, article, cache, dataset, attempt, qa_pairs,
                   exc, hist, returned, textVars>>

\* lines 195-197
Shuffle(p) ==
    /\ pc = "counted"
    /\ shuffled' = p
    /\ pc' = "shuffled"
    /\ UNCHANGED <<limit, total_articles, selected_article_ids>>
    /\ UNCHANGED <<article_ids, idx, article, cache, dataset, attempt, qa_pairs,
                   exc, hist, returned, textVars>>

\* lines 194 and 198
Select ==
    /\ pc = "shuffled"
    /\ selected_article_ids' = Slice(shuffled, article_count(limit, total_articles))
    /\ pc' = "selected"
    /\ UNCHANGED <<limit, total_articles, shuffled>>
    /\ UNCHANGED <<article_ids, idx, article, cache, dataset, attempt, qa_pairs,
                   exc, hist, returned, textVars>>

NextMain ==
    \/ \E n \in 0..MaxTotal : CountArticles(n)
    \/ \E p \in Shuffles(total_articles) : Shuffle(p)
    \/ Select

SpecMain == InitMain /\ [][NextMain]_vars

(***************************************************************************)
(* The claims.                                                             *)
(***************************************************************************)
CurrentKey == article_hash(article)

\* C1: a call of generate_questions on a cache miss issues at most 3 API
\* requests, numbered 1, 2, 3 in order; after a failed attempt n < 3 the call
\* is at attempt n + 1, and after a successful attempt it issues no request.
C1_AtMostThreeAttemptsInOrder ==
    /\ Len(api_log) <= 3
    /\ \A i \in 1..Len(api_log) : api_log[i] = i
    /\ pc = "attempt" => (~last.ok /\ Len(api_log) < 3 /\ attempt + 1 = Len(api_log) + 1)
    /\ (api_log # <<>> /\ ~last.ok /\ Len(api_log) < 3) => pc = "attempt"
    /\ last.ok => pc # "attempt"

\* two failures, then a third request that succeeds
C1_Witness == Len(api_log) = 3 /\ last.ok /\ pc = "rows"

\* C2: when all 3 attempts of a call on a cache miss fail, the call returns
\* the empty list, raises nothing, and the cache is as it was before the
\* call: no file exists for the article's key.
C2_ExhaustedLeavesCacheUntouched ==
    (pc = "rows" /\ Len(api_log) = 3 /\ ~last.ok)
        => /\ qa_pairs = EmptyList
           /\ exc = "none"
           /\ cache = cache0
           /\ ~CacheExists(cache, CurrentKey)

\* C3: whenever a cache file exists for the key of the article when
\* generate_questions is called, the call returns the stored value and issues
\* no API request.
C3_CacheHitReturnsStored ==
    (pc \in {"rows", "raised"} /\ article # NoArticle /\ CacheExists(cache0, CurrentKey))
        => /\ exc # "JSONDecodeError"
           /\ api_log = <<>>
           /\ json_loads(cache0[CurrentKey]).ok
           /\ qa_pairs = json_loads(cache0[CurrentKey]).value

\* C4: when an attempt succeeds, exactly one cache file is created, under
\* the key of the article; it holds the parsed response; the call returns the
\* parsed response; and every later call with the same key is a cache hit
\* that returns the same list.
C4_SuccessIsCachedAndReadBack ==
    /\ (pc = "rows" /\ last.ok) =>
          LET v == json_loads(last.resp.body).value
          IN  /\ ~CacheExists(cache0, CurrentKey)
              /\ DOMAIN cache = DOMAIN cache0 \cup {CurrentKey}
              /\ \A k \in DOMAIN cache0 : cache[k] = cache0[k]
              /\ json_loads(cache[CurrentKey]) = [ok |-> TRUE, value |-> v]
              /\ qa_pairs = v
    /\ \A i \in 1..Len(returned) : \A j \in 1..Len(returned) :
          ( /\ i < j
            /\ returned[i].how = "generated"
            /\ article_hash(returned[i].article) = article_hash(returned[j].article) )
          => (returned[j].how = "hit" /\ returned[j].qa_pairs = returned[i].qa_pairs)
    /\ exc = "JSONDecodeError" =>
          \A i \in 1..Len(returned) :
              returned[i].how = "generated" => article_hash(returned[i].article) # CurrentKey

\* a 5-pair response generated for one article and read back by a later call
C4_Witness ==
    \E i \in 1..Len(returned) : \E j \in 1..Len(returned) :
        /\ i < j
        /\ returned[i].how = "generated" /\ returned[j].how = "hit"
        /\ Len(returned[i].qa_pairs.items) = 5
        /\ returned[j].qa_pairs = returned[i].qa_pairs

\* C5: one article's generation failure never aborts the batch: whatever the
\* API answers (transport error, empty response, unparsable body, records
\* lacking the expected keys), process_articles goes on to the next article
\* and no KeyError leaves it.
C5_BatchNeverAborts == ~(pc = "raised" /\ exc = "KeyError")

\* a response that is no usable list of question/answer records
Unusable(resp) ==
    \/ resp.kind \in {"error", "none"}
    \/ ~json_loads(resp.body).ok
    \/ \E i \in 1..Len(json_loads(resp.body).value.items) :
           ~HasKeys(json_loads(resp.body).value.items[i])

\* C6: every non-usable response (transport error, empty body, unparsable
\* body, records lacking 'spørgsmål' or 'svar') counts as a failed attempt.
C6_UnusableResponseFails ==
    (last.resp.kind # "unset" /\ Unusable(last.resp)) => ~last.ok

\* C7: every list generate_questions returns holds at most 5 pairs.
C7_AtMostFivePairs ==
    \A i \in 1..Len(returned) : Len(returned[i].qa_pairs.items) <= 5

\* the rows of one return of generate_questions, pair by pair
EntryRows(e) ==
    [k \in 1..Len(e.qa_pairs.items) |->
        [title |-> e.article.title, context |-> e.article.content,
         question |-> e.qa_pairs.items[k]["spørgsmål"],
         answer |-> e.qa_pairs.items[k]["svar"]]]

RECURSIVE ConcatRows(_, _)
ConcatRows(rs, i) == IF i > Len(rs) THEN <<>> ELSE EntryRows(rs[i]) \o ConcatRows(rs, i + 1)

\* C8: the dataset process_articles returns is the concatenation, in the
\* order of article_ids, of one row per pair generate_questions returned for
\* each kept article, with that article's title and content; nothing is
\* dropped, deduplicated or reordered, and skipped articles give no rows.
C8_DatasetIsConcatenation ==
    pc = "done" =>
        /\ dataset = ConcatRows(returned, 1)
        /\ \A i \in 1..Len(returned) :
              /\ returned[i].pos \in 1..Len(article_ids)
              /\ article_ids[returned[i].pos] \in 1..Len(Articles)
              /\ returned[i].article.title = Articles[article_ids[returned[i].pos]].title
              /\ \E ok \in BOOLEAN :
                    LET a == process_article(returned[i].article.title,
                                             Articles[article_ids[returned[i].pos]].text, ok)
                    IN  a.status = "keep" /\ a.content = returned[i].article.content
              /\ \A j \in 1..Len(returned) : i < j => returned[i].pos < returned[j].pos

\* two kept articles, five rows each with repeated pairs, titles differing
C8_Witness ==
    /\ pc = "done" /\ Len(returned) = 2 /\ Len(dataset) = 10
    /\ dataset[1].title # dataset[6].title
    /\ dataset[3] = dataset[4]

\* a raw text that starts with a redirect marker in any case, after any
\* leading whitespace
StartsWithRedirectMarker(text) ==
    \E i \in 1..Len(text) :
        /\ text[i] \in {"#REDIRECT", "#redirect", "#Redirect"}
        /\ \A k \in 1..(i - 1) : text[k] = "sp"

\* C9: every raw text that starts with a redirect marker is skipped,
\* whether or not the parse would have failed.
C9_RedirectIsSkipped ==
    (outcome # "none" /\ StartsWithRedirectMarker(raw)) => (outcome = "skip" /\ kept = NoContent)

\* an upper-case marker after leading whitespace, with a failing parse
C9_Witness ==
    /\ outcome = "skip" /\ ~parsed
    /\ Len(raw) >= 2 /\ raw[1] = "sp" /\ raw[2] = "#REDIRECT"

ShortContent(text) ==
    TextLen(clean_wikitext(text)) < 300 \/ WordCount(clean_wikitext(text)) < 50

\* C10 as stated: every wikitext whose cleaned content has length < 300 or
\* fewer than 50 words is skipped.
C10_ShortContentIsSkipped ==
    (outcome # "none" /\ ShortContent(raw)) => outcome = "skip"

\* C10 as amended: when the parse of the wikitext succeeds, a cleaned content
\* of length < 300 or of fewer than 50 words is skipped, and a kept article
\* has content of at least 300 characters and 50 words.
C10_ShortContentIsSkippedWhenParsed ==
    /\ (outcome # "none" /\ parsed /\ ShortContent(raw)) => outcome = "skip"
    /\ (outcome = "keep" /\ parsed) => (TextLen(kept) >= 300 /\ WordCount(kept) >= 50)

\* long enough but of one word, not a redirect and not include-only: skipped
\* by the not-meaningful rule alone
C10_Witness ==
    /\ outcome = "skip" /\ parsed
    /\ ~StartsWithRedirectMarker(raw)
    /\ is_include_only(clean_wikitext(raw)) = "False"
    /\ TextLen(clean_wikitext(raw)) >= 300 /\ WordCount(clean_wikitext(raw)) < 50

\* C11: when the parse of a non-redirect wikitext fails, process_article
\* neither skips nor raises: it returns the article with the raw text as its
\* content, whatever the include-only and not-meaningful rules would say.
C11_ParseFailureKeepsRawText ==
    (outcome # "none" /\ ~parsed /\ ~StartsWithRedirectMarker(raw))
        => (outcome = "keep" /\ kept = raw)

\* a raw text that starts like an include-only page and is too short to be
\* meaningful, kept unchanged after a failed parse
C11_Witness ==
    /\ outcome = "keep" /\ ~parsed /\ kept = raw
    /\ raw # <<>> /\ raw[1] = "}"
    /\ is_include_only(raw) = "True"
    /\ TextLen(raw) < 300

\* C12: generate_questions sleeps exactly between consecutive attempts: once
\* after failed attempt 1, once after failed attempt 2, never after attempt
\* 3, never after a successful attempt and never on a cache hit; a call that
\* exhausts its retries has slept exactly 2 times.
C12_SleepsBetweenAttempts ==
    /\ api_log = <<>> => sleeps = 0
    /\ pc = "attempt" => sleeps = Len(api_log)
    /\ last.ok => sleeps = Len(api_log) - 1
    /\ (Len(api_log) = 3 /\ ~last.ok) => sleeps = 2
    /\ sleeps <= 2

\* three failed attempts, two sleeps, the empty list returned
C12_Witness ==
    pc = "rows" /\ Len(api_log) = 3 /\ ~last.ok /\ sleeps = 2 /\ qa_pairs = EmptyList

\* C13: a call of generate_questions changes at most the cache file under
\* the article's own key: files of other keys are unchanged, a file that
\* existed when the call started is neither overwritten nor deleted, and a
\* cache hit and a call that exhausts its retries leave the whole cache as
\* it was.
C13_CallChangesOwnEntryOnly ==
    (pc \in {"attempt", "rows", "raised"} /\ article # NoArticle) =>
        /\ \A k \in DOMAIN cache0 : k \in DOMAIN cache /\ cache[k] = cache0[k]
        /\ \A k \in DOMAIN cache : k \notin DOMAIN cache0 => k = CurrentKey
        /\ (pc = "rows" /\ api_log = <<>>) => cache = cache0
        /\ (pc = "rows" /\ Len(api_log) = 3 /\ ~last.ok) => cache = cache0

\* C14: every call of generate_questions eventually returns a list (the
\* cached value, the parsed response or the empty list): no path of the
\* cache check and retry loop runs forever or ends without a return value.
C14_EveryCallReturns == (pc = "generate") ~> (pc = "rows")

\* C15: whenever a call of generate_questions has returned, every cache file
\* that exists holds a complete serialized list, which a later cache hit
\* deserializes; a call that returns the empty list after exhausted retries
\* leaves no partial file.
C15_CacheFilesAreComplete ==
    pc \in {"rows", "loop", "done"} =>
        \A k \in DOMAIN cache :
            /\ json_loads(cache[k]).ok
            /\ json_dumps(json_loads(cache[k]).value) = cache[k]

\* C16: the ids main hands to process_articles are pairwise distinct, lie in
\* 1..total_articles and are a prefix of a permutation of 1..total_articles;
\* their number is min(limit, total_articles) for a limit >= 1 and
\* total_articles when the limit is absent or 0.
C16_SelectedIdsArePrefixOfPermutation ==
    pc = "selected" =>
        LET sel == selected_article_ids
            n == Len(sel)
        IN  /\ \A i, j \in 1..n : sel[i] = sel[j] => i = j
            /\ \A i \in 1..n : sel[i] \in 1..total_articles
            /\ Len(shuffled) = total_articles
            /\ \A v \in 1..total_articles : \E i \in 1..total_articles : shuffled[i] = v
            /\ n <= Len(shuffled) /\ \A i \in 1..n : sel[i] = shuffled[i]
            /\ (limit.given /\ limit.value >= 1) =>
                   n = (IF limit.value < total_articles THEN limit.value
                        ELSE total_articles)
            /\ (~limit.given \/ limit.value = 0) => n = total_articles

C16_Witness ==
    /\ pc = "selected"
    /\ limit.given /\ limit.value = 2 /\ total_articles = 3
    /\ Len(selected_article_ids) = 2
    /\ selected_article_ids # <<1, 2>>

\* the call is_include_only(c) gets past both early returns and one of the
\* template expressions is found, so the ratio is computed
DivisionReached(c) ==
    LET content == LStrip(c)
    IN  /\ ~(content # <<>> /\ content[1] \in {"}", "|", "</ref>"})
        /\ SubTemplateCategorySpace(content, 1) # <<>>
        /\ \E k \in 1..Len(include_only_templates) :
               FindAllCount(content, include_only_templates[k]) > 0

\* C17: the template ratio of is_include_only never divides by zero: whenever
\* the division is reached the word count of the content is at least 1, and
\* content that is empty or whitespace-only has returned include-only before.
C17_RatioNeverDividesByZero ==
    outcome # "none" =>
        /\ outcome # "raise"
        /\ \A c \in {raw, clean_wikitext(raw)} :
               /\ is_include_only(c) # "ZeroDivisionError"
               /\ DivisionReached(c) => WordCount(LStrip(c)) >= 1
               /\ WordCount(LStrip(c)) = 0 =>
                      (is_include_only(c) = "True" /\ ~DivisionReached(c))

C17_Witness ==
    /\ outcome = "keep" /\ parsed
    /\ DivisionReached(clean_wikitext(raw))
    /\ kept = clean_wikitext(raw)
    /\ is_include_only(kept) = "False"
=============================================================================
